---------------------------- MODULE Spec2Model ----------------------------
(***************************************************************************)
(* Model of batch_handler_rheometer_data.py: the cycle segmentation and    *)
(* the per-cycle moduli estimation of calculate_moduli_by_cycle, the file  *)
(* reader process_file and the batch loop of main.                         *)
(*                                                                         *)
(* Numbers.  Displacements, forces and sizes are integers; strains,        *)
(* gradients and slopes are exact rationals <<n, d>> (d > 0, lowest        *)
(* terms).  A strain that numpy would compute as inf or nan (division by   *)
(* a zero Current Size) is the value NonFinite.                            *)
(*                                                                         *)
(* Text.  A Cycle label is a sequence of tokens, each a word or the        *)
(* whitespace token " ".  A path is a sequence of character codes.         *)
(*                                                                         *)
(* Exceptions.  Only read_csv is inside a try.  KeyError (a missing        *)
(* column), ValueError (np.gradient on one row), LinAlgError (lstsq on     *)
(* nan, on the builds that reject it) and TypeError (len(None)) leave      *)
(* calculate_moduli_by_cycle, process_file and main uncaught.              *)
(*                                                                         *)
(* Spec is a run of main over a folder of at most MaxFiles files; SpecSeg  *)
(* and SpecEst apply calculate_moduli_by_cycle to every frame of at most   *)
(* MaxRows rows over small sets of labels, displacements and forces.       *)
(***************************************************************************)
EXTENDS Integers, Sequences, FiniteSets, TLC

VARIABLES
    pc,            \* position of the run (see the three specifications)
    lapack,        \* the numpy/LAPACK build: what lstsq does on nan input
    file_list,     \* main: glob's result, in the order the scan returned it
    todo,          \* main: the part of sorted(file_list) not yet iterated
    output_rows,   \* main: output_rows
    log,           \* everything printed so far
    written,       \* number of to_csv calls on moduli_summary.csv
    exc,           \* the exception that ended the run, or NoExc
    examined,      \* history: per iterated file, its path, content and result
    df,            \* calculate_moduli_by_cycle: the data frame it was given
    cycle_numbers, \* calculate_moduli_by_cycle: df["Cycle_Number"]
    groups,        \* calculate_moduli_by_cycle: compress_df.groupby(...)
    outcome,       \* calculate_moduli_by_cycle: what the call returned or raised
    before         \* the data frame before rows were appended to it

vars == <<pc, lapack, file_list, todo, output_rows, log, written, exc,
          examined, df, cycle_numbers, groups, outcome, before>>

batchVars == <<file_list, todo, output_rows, log, written, exc, examined>>
calcVars == <<df, cycle_numbers, groups, outcome, before>>

\* Python's None where a dict, a frame or a name is expected; NoExc where no
\* exception has been raised.
None == [none |-> TRUE]
NoExc == "no exception"

-----------------------------------------------------------------------------
(* Bounds of the model *)

MaxRows == 4        \* rows of a data frame in SpecSeg and SpecEst
MaxFiles == 3       \* files in the data folder in Spec

-----------------------------------------------------------------------------
(* Columns and rows *)

ColCycle == "Cycle"
ColDisp == "ZTip Displacement(um)"
ColForce == "ZForce(uN)"
ColSize == "Current Size (um)"
Columns == {ColCycle, ColDisp, ColForce, ColSize}

Row(label, d, f, s) ==
    (ColCycle :> label) @@ (ColDisp :> d) @@ (ColForce :> f) @@ (ColSize :> s)

\* A CSV that pandas parsed: the columns of its header and its rows, each row
\* a function on those columns.
Frame(cols, rows) ==
    [columns |-> cols,
     rows |-> [i \in 1..Len(rows) |-> [c \in cols |-> rows[i][c]]]]

SeqsUpTo(S, n) == UNION {[1..k -> S] : k \in 0..n}

Min(S) == CHOOSE x \in S : \A y \in S : x <= y

\* The elements of s at the positions in keep, in order.
RECURSIVE TakeFrom(_, _, _)
TakeFrom(s, keep, i) ==
    IF i > Len(s) THEN <<>>
    ELSE (IF i \in keep THEN <<s[i]>> ELSE <<>>) \o TakeFrom(s, keep, i + 1)

Take(s, keep) == TakeFrom(s, keep, 1)

\* The positions in keep, ascending.
Ascending(keep, n) == Take([i \in 1..n |-> i], keep)

-----------------------------------------------------------------------------
(* Rationals *)

Abs(n) == IF n < 0 THEN -n ELSE n

RECURSIVE GCD(_, _)
GCD(a, b) == IF b = 0 THEN a ELSE GCD(b, a % b)

Rat(n, d) ==
    LET g == GCD(Abs(n), Abs(d))
        s == IF d < 0 THEN -1 ELSE 1
    IN  <<(s * n) \div g, (s * d) \div g>>

RatOf(n) == <<n, 1>>
RatAdd(a, b) == Rat(a[1] * b[2] + b[1] * a[2], a[2] * b[2])
RatSub(a, b) == Rat(a[1] * b[2] - b[1] * a[2], a[2] * b[2])
RatMul(a, b) == Rat(a[1] * b[1], a[2] * b[2])
RatDiv(a, b) == Rat(a[1] * b[2], a[2] * b[1])
RatPos(a) == a[1] > 0

RECURSIVE RatSum(_)
RatSum(s) == IF s = <<>> THEN RatOf(0) ELSE RatAdd(Head(s), RatSum(Tail(s)))

\* x/0 and 0/0: no rational; carried, never computed with.
NonFinite == <<1, 0>>
NaN == <<0, 0>>

-----------------------------------------------------------------------------
(* Labels: str.strip and str.endswith("Compress") *)

Space == " "

RECURSIVE LStrip(_)
LStrip(s) ==
    IF s # <<>> /\ Head(s) = Space THEN LStrip(Tail(s)) ELSE s

RECURSIVE RStrip(_)
RStrip(s) ==
    IF s # <<>> /\ s[Len(s)] = Space THEN RStrip(SubSeq(s, 1, Len(s) - 1)) ELSE s

Strip(s) == RStrip(LStrip(s))

EndsWithCompress(s) == s # <<>> /\ s[Len(s)] = "Compress"

\* Faulty variant: the label is not stripped before the suffix test.
IsCompress_NoStrip(label) == EndsWithCompress(label)

IsCompress(label) == EndsWithCompress(Strip(label))

-----------------------------------------------------------------------------
(* calculate_moduli_by_cycle: cycle segmentation (lines 29-46) *)

\* Faulty variant: every compress row starts a cycle, whatever precedes it.
NextCycle_EveryCompress(rows, i, current_cycle) ==
    IF IsCompress(rows[i][ColCycle]) THEN current_cycle + 1 ELSE current_cycle

\* One iteration of the row loop: the value of current_cycle after row i
\* (1-based here; the code's idx is i - 1 on the RangeIndex read_csv builds).
NextCycle(rows, i, current_cycle) ==
    IF IsCompress(rows[i][ColCycle])
    THEN IF i = 1
         THEN 1
         ELSE IF ~IsCompress(rows[i - 1][ColCycle])
              THEN current_cycle + 1
              ELSE current_cycle
    ELSE current_cycle

RECURSIVE CycleNumbersFrom(_, _, _)
CycleNumbersFrom(rows, i, current_cycle) ==
    IF i > Len(rows) THEN <<>>
    ELSE LET c == NextCycle(rows, i, current_cycle)
         IN  <<c>> \o CycleNumbersFrom(rows, i + 1, c)

Cycle_Number(rows) == CycleNumbersFrom(rows, 1, 0)

-----------------------------------------------------------------------------
(* calculate_moduli_by_cycle: grouping (lines 49, 52) *)

\* The positions of the rows kept in compress_df.
compress_df(rows) == {i \in 1..Len(rows) : IsCompress(rows[i][ColCycle])}

\* groupby("Cycle_Number"): per key, the positions of its rows in row order.
groupby(rows, cn) ==
    LET kept == compress_df(rows)
    IN  [k \in {cn[i] : i \in kept} |->
            Ascending({i \in kept : cn[i] = k}, Len(rows))]

GroupRows(rows, positions) == [j \in 1..Len(positions) |-> rows[positions[j]]]

-----------------------------------------------------------------------------
(* calculate_moduli_by_cycle: the estimator (lines 54-72) *)

\* numpy.gradient of a sequence of at least 2 values, unit spacing: one-sided
\* differences at the two ends, centred differences inside.
np_gradient(f) ==
    LET n == Len(f)
    IN  [i \in 1..n |->
            IF i = 1 THEN RatOf(f[2] - f[1])
            ELSE IF i = n THEN RatOf(f[n] - f[n - 1])
            ELSE Rat(f[i + 1] - f[i - 1], 2)]

Displacement(group) == [i \in 1..Len(group) |-> group[i][ColDisp]]
Stress(group) == [i \in 1..Len(group) |-> group[i][ColForce]]

\* Lines 57-59: strain relative to the first row of the group.
Strain(group) ==
    LET initial_disp == group[1][ColDisp]
        initial_length == group[1][ColSize]
    IN  [i \in 1..Len(group) |->
            IF initial_length = 0 THEN NonFinite
            ELSE Rat(group[i][ColDisp] - initial_disp, initial_length)]

\* Faulty variant: the filter has the wrong sign and keeps the unloading rows.
Loading_Unloading(group) ==
    LET d_disp == np_gradient(Displacement(group))
    IN  {i \in 1..Len(group) : d_disp[i][1] < 0}

\* Lines 62-63: the positions (within the group) of the loading rows.
Loading(group) ==
    LET d_disp == np_gradient(Displacement(group))
    IN  {i \in 1..Len(group) : RatPos(d_disp[i])}

\* numpy.polyfit(x, y, 1)[0] on at least 2 points.  polyfit scales the columns
\* of the Vandermonde matrix by their norms and calls lstsq: a non-finite x, or
\* an x that is all zeros (norm 0, hence 0/0), hands lstsq a matrix with nan;
\* equal non-zero x leave a matrix of rank 1, whose minimum-norm solution has
\* slope mean(y) / (2 x); otherwise the slope is that of ordinary least squares.
polyfit(x, y) ==
    LET n == Len(x)
        I == 1..n
    IN  IF (\E i \in I : x[i] = NonFinite) \/ (\A i \in I : x[i] = RatOf(0))
        THEN [kind |-> "nan input"]
        ELSE LET sy == RatSum([i \in I |-> RatOf(y[i])])
                 sx == RatSum(x)
                 sxy == RatSum([i \in I |-> RatMul(x[i], RatOf(y[i]))])
                 sxx == RatSum([i \in I |-> RatMul(x[i], x[i])])
             IN  IF \A i \in I : x[i] = x[1]
                 THEN [kind |-> "fit",
                       slope |-> RatDiv(RatDiv(sy, RatOf(n)),
                                        RatMul(RatOf(2), x[1]))]
                 ELSE [kind |-> "fit",
                       slope |-> RatDiv(
                           RatSub(RatMul(RatOf(n), sxy), RatMul(sx, sy)),
                           RatSub(RatMul(RatOf(n), sxx), RatMul(sx, sx)))]

Moduli(E_prime, G_prime) ==
    [storage |-> E_prime, shear |-> G_prime]

\* One iteration of the loop over the groups (lines 52-72): "continue", a
\* result for the cycle, or the exception that leaves the function.
CycleOutcome(cols, group, lap) ==
    IF {ColDisp, ColForce, ColSize} \ cols # {}
    THEN [kind |-> "raise", exc |-> "KeyError"]
    ELSE IF Len(group) < 2
    THEN [kind |-> "raise", exc |-> "ValueError"]       \* np.gradient, line 62
    ELSE LET loading_group == Loading(group)
         IN  IF Cardinality(loading_group) < 2
             THEN [kind |-> "continue"]
             ELSE LET fit == polyfit(Take(Strain(group), loading_group),
                                     Take(Stress(group), loading_group))
                  IN  IF fit.kind = "fit"
                      THEN [kind |-> "result",
                            moduli |-> Moduli(fit.slope,
                                              RatDiv(fit.slope, RatOf(3)))]
                      ELSE IF lap = "raises"
                      THEN [kind |-> "raise", exc |-> "LinAlgError"]
                      ELSE [kind |-> "result", moduli |-> Moduli(NaN, NaN)]

\* The whole function: the result map it returns, or the exception it raises.
calculate_moduli_by_cycle(frame, lap) ==
    IF ColCycle \notin frame.columns
    THEN [kind |-> "raise", exc |-> "KeyError"]         \* line 34 or line 49
    ELSE LET rows == frame.rows
             grp == groupby(rows, Cycle_Number(rows))
             per == [k \in DOMAIN grp |->
                        CycleOutcome(frame.columns, GroupRows(rows, grp[k]), lap)]
             raising == {k \in DOMAIN grp : per[k].kind = "raise"}
         IN  IF raising # {}
             THEN [kind |-> "raise", exc |-> per[Min(raising)].exc]
             ELSE [kind |-> "return",
                   results |-> [k \in {c \in DOMAIN grp : per[c].kind = "result"}
                                   |-> per[k].moduli]]

-----------------------------------------------------------------------------
(* Paths: glob's results, sorted() and os.path.basename *)

\* "data" + separator; the separator is the code 0, which no name contains.
FolderPrefix == <<4, 0>>

\* The names a *.csv file of the folder can have (one is a prefix of another).
FileNames == {<<1>>, <<1, 2>>, <<2>>, <<2, 1>>}

join(name) == FolderPrefix \o name

RECURSIVE basename(_)
basename(path) ==
    IF \E i \in 1..Len(path) : path[i] = 0 THEN basename(Tail(path)) ELSE path

\* Python's str comparison: lexicographic, a proper prefix first.
RECURSIVE StrLess(_, _)
StrLess(a, b) ==
    IF a = <<>> THEN b # <<>>
    ELSE IF b = <<>> THEN FALSE
    ELSE IF Head(a) # Head(b) THEN Head(a) < Head(b)
    ELSE StrLess(Tail(a), Tail(b))

RECURSIVE Insert(_, _)
Insert(x, s) ==
    IF s = <<>> THEN <<x>>
    ELSE IF StrLess(x, Head(s)) THEN <<x>> \o s
    ELSE <<Head(s)>> \o Insert(x, Tail(s))

\* Faulty variant: the loop iterates file_list as the scan returned it.
unsorted(s) == s

RECURSIVE sorted(_)
sorted(s) == IF s = <<>> THEN <<>> ELSE Insert(Head(s), sorted(Tail(s)))

\* sorted(moduli_dict.keys()) on integer keys.
RECURSIVE sorted_keys(_)
sorted_keys(S) ==
    IF S = {} THEN <<>> ELSE <<Min(S)>> \o sorted_keys(S \ {Min(S)})

Injective(s) == \A i, j \in 1..Len(s) : i # j => s[i] # s[j]

-----------------------------------------------------------------------------
(* The contents a file of the folder can have *)

LabCompress == <<"1", Space, "Compress">>
LabCompressWs == <<Space, "2", Space, "Compress", Space>>
LabHold == <<"1", Space, "Hold">>
LabCompressHold == <<"1", Space, "Compress", Space, "Hold">>

HoldRow == Row(LabHold, 0, 0, 2)

\* A two-row compress run, displacement 0 -> 1 and force 0 -> k.
Ramp(k, size) == <<Row(LabCompress, 0, 0, size), Row(LabCompressWs, 1, k, size)>>

\* A two-row compress run with falling displacement: no loading row.
Fall(size) == <<Row(LabCompress, 1, 0, size), Row(LabCompress, 0, 1, size)>>

Unreadable == [readable |-> FALSE]
Readable(frame) == [readable |-> TRUE, frame |-> frame]

ThreeCycles ==
    Frame(Columns, Ramp(1, 2) \o <<HoldRow>> \o Ramp(2, 2) \o <<HoldRow>> \o Ramp(3, 2))
TwoCycles ==
    Frame(Columns, <<HoldRow>> \o Ramp(1, 2) \o <<HoldRow>> \o Ramp(2, 2))
FiveCyclesOneEmpty ==
    Frame(Columns, Ramp(1, 1) \o <<HoldRow>> \o Fall(1) \o <<HoldRow>> \o Ramp(3, 1)
                   \o <<HoldRow>> \o Ramp(4, 1) \o <<HoldRow>> \o Ramp(5, 1))
OneRowCycle ==
    Frame(Columns, <<Row(LabCompress, 0, 0, 2), HoldRow>> \o Ramp(1, 2)
                   \o <<HoldRow>> \o Ramp(2, 2) \o <<HoldRow>> \o Ramp(3, 2))
ZeroSize ==
    Frame(Columns, Ramp(1, 0) \o <<HoldRow>> \o Ramp(2, 0) \o <<HoldRow>> \o Ramp(3, 0))
NoCycleColumn ==
    Frame(Columns \ {ColCycle}, Ramp(1, 2))
NoSizeColumn ==
    Frame(Columns \ {ColSize}, Ramp(1, 2) \o <<HoldRow>> \o Ramp(2, 2) \o <<HoldRow>> \o Ramp(3, 2))
NoForceColumnNoCompress ==
    Frame(Columns \ {ColForce}, <<HoldRow, HoldRow>>)

SampleFiles ==
    {Unreadable, Readable(ThreeCycles), Readable(TwoCycles),
     Readable(FiveCyclesOneEmpty), Readable(OneRowCycle), Readable(ZeroSize),
     Readable(NoCycleColumn), Readable(NoSizeColumn),
     Readable(NoForceColumnNoCompress)}

Lapacks == {"raises", "nan"}

-----------------------------------------------------------------------------
(* process_file (lines 75-87) *)

ErrorReading(file_path) == [msg |-> "Error reading", file |-> file_path]

process_file(file_path, content, lap) ==
    IF ~content.readable
    THEN [kind |-> "return", test_name |-> None, moduli_dict |-> None,
          printed |-> <<ErrorReading(file_path)>>]
    ELSE LET got == calculate_moduli_by_cycle(content.frame, lap)
         IN  IF got.kind = "raise"
             THEN [kind |-> "raise", exc |-> got.exc, printed |-> <<>>]
             ELSE [kind |-> "return", test_name |-> basename(file_path),
                   moduli_dict |-> got.results, printed |-> <<>>]

-----------------------------------------------------------------------------
(* main (lines 89-120) *)

Skipping(test_name, found) ==
    [msg |-> "Skipping", file |-> test_name, found |-> found]
Saved == [msg |-> "Summary of moduli saved"]
NoFilesProcessed == [msg |-> "No files processed."]

\* Lines 100-112: the summary row of a file with at least 3 results.
SummaryRow(test_name, moduli_dict) ==
    LET cycles == sorted_keys(DOMAIN moduli_dict)
    IN  [name |-> test_name,
         cycle1 |-> moduli_dict[cycles[1]],
         cycle2 |-> moduli_dict[cycles[2]],
         cycle3 |-> moduli_dict[cycles[3]]]

\* Faulty variant: the threshold is off by one and asks for more than 3.
Insufficient_OffByOne(moduli_dict) ==
    moduli_dict = None \/ Cardinality(DOMAIN moduli_dict) <= 3

\* Line 96: moduli_dict is None or len(moduli_dict) < 3.
Insufficient(moduli_dict) ==
    moduli_dict = None \/ Cardinality(DOMAIN moduli_dict) < 3

\* Lines 96-113, given what process_file returned or raised: what the
\* iteration prints and appends, and the exception that leaves it.  Line 97
\* evaluates len(moduli_dict) inside the message: TypeError on None.
AfterProcess(r) ==
    IF r.kind = "raise"
    THEN [exc |-> r.exc, printed |-> r.printed, rows |-> <<>>,
          moduli_dict |-> None]
    ELSE IF Insufficient(r.moduli_dict)
    THEN IF r.moduli_dict = None
         THEN [exc |-> "TypeError", printed |-> r.printed, rows |-> <<>>,
               moduli_dict |-> None]
         ELSE [exc |-> NoExc,
               printed |-> r.printed \o
                   <<Skipping(r.test_name, Cardinality(DOMAIN r.moduli_dict))>>,
               rows |-> <<>>, moduli_dict |-> r.moduli_dict]
    ELSE [exc |-> NoExc, printed |-> r.printed,
          rows |-> <<SummaryRow(r.test_name, r.moduli_dict)>>,
          moduli_dict |-> r.moduli_dict]

\* One iteration of the loop over sorted(file_list) (lines 94-113).
LoopBody(file, content, lap) == AfterProcess(process_file(file, content, lap))

\* Lines 91-93: the directory scan, in whatever order the system returns it.
Glob ==
    /\ pc = "main"
    /\ \E fl \in SeqsUpTo({join(n) : n \in FileNames}, MaxFiles) :
          /\ Injective(fl)
          /\ file_list' = fl
          /\ todo' = sorted(fl)
    /\ pc' = "loop"
    /\ UNCHANGED <<lapack, output_rows, log, written, exc, examined>>
    /\ UNCHANGED calcVars

\* The effect of one iteration on main's state.
Iterated(file, content, it) ==
    /\ log' = log \o it.printed
    /\ output_rows' = output_rows \o it.rows
    /\ examined' = Append(examined,
          [file |-> file, content |-> content,
           moduli_dict |-> it.moduli_dict, exc |-> it.exc])
    /\ exc' = it.exc
    /\ pc' = IF it.exc = NoExc THEN "loop" ELSE "aborted"

\* Lines 94-113: one iteration, on the content the file turns out to have.
Iterate ==
    /\ pc = "loop"
    /\ todo # <<>>
    /\ \E content \in SampleFiles :
          Iterated(Head(todo), content, LoopBody(Head(todo), content, lapack))
    /\ todo' = Tail(todo)
    /\ UNCHANGED <<lapack, file_list, written>>
    /\ UNCHANGED calcVars

\* Lines 114-120: write the table, or report that there is none.
Finish ==
    /\ pc = "loop"
    /\ todo = <<>>
    /\ IF output_rows # <<>>
       THEN /\ written' = written + 1
            /\ log' = Append(log, Saved)
       ELSE /\ written' = written
            /\ log' = Append(log, NoFilesProcessed)
    /\ pc' = "done"
    /\ UNCHANGED <<lapack, file_list, todo, output_rows, exc, examined>>
    /\ UNCHANGED calcVars

Init ==
    /\ pc = "main"
    /\ lapack \in Lapacks
    /\ file_list = <<>>
    /\ todo = <<>>
    /\ output_rows = <<>>
    /\ log = <<>>
    /\ written = 0
    /\ exc = NoExc
    /\ examined = <<>>
    /\ df = None
    /\ cycle_numbers = None
    /\ groups = None
    /\ outcome = None
    /\ before = None

Next == Glob \/ Iterate \/ Finish

Spec == Init /\ [][Next]_vars

-----------------------------------------------------------------------------
(* calculate_moduli_by_cycle applied to bounded data frames *)

Labels == {LabCompress, LabCompressWs, LabHold, LabCompressHold}

\* Rows for the segmentation: every label, two displacements.
SegRows == {Row(l, d, 1, 2) : l \in Labels, d \in {0, 1}}

\* Rows for the estimator: compress rows over displacements and forces; the
\* rows between runs are never read by the estimator and are all HoldRow.
EstRows(size) ==
    {Row(LabCompressWs, d, f, size) : d \in {0, 1, 2}, f \in {0, 1}} \cup {HoldRow}

Sizes == {0, 2}

\* The call: lines 22-73 on df.
Calculate ==
    /\ pc = "input"
    /\ cycle_numbers' = Cycle_Number(df.rows)
    /\ groups' = groupby(df.rows, cycle_numbers')
    /\ outcome' = calculate_moduli_by_cycle(df, lapack)
    /\ pc' = "called"
    /\ UNCHANGED <<lapack, df, before>>
    /\ UNCHANGED batchVars

BatchIdle ==
    /\ file_list = <<>>
    /\ todo = <<>>
    /\ output_rows = <<>>
    /\ log = <<>>
    /\ written = 0
    /\ exc = NoExc
    /\ examined = <<>>

InitSeg ==
    /\ pc = "input"
    /\ lapack \in Lapacks
    /\ df \in {Frame(Columns, rows) : rows \in SeqsUpTo(SegRows, MaxRows)}
    /\ cycle_numbers = None
    /\ groups = None
    /\ outcome = None
    /\ before = None
    /\ BatchIdle

NextSeg == Calculate

SpecSeg == InitSeg /\ [][NextSeg]_vars

\* A further compress row with lower displacement (any force, any size) is
\* appended to a frame that ends in a compress row, and the function is
\* called on the longer frame; before keeps the frame as first drawn.
AppendUnloading ==
    /\ pc = "called"
    /\ df.rows # <<>>
    /\ Len(df.rows) < MaxRows
    /\ IsCompress(df.rows[Len(df.rows)][ColCycle])
    /\ \E size \in Sizes : \E r \in EstRows(size) :
          /\ IsCompress(r[ColCycle])
          /\ r[ColDisp] < df.rows[Len(df.rows)][ColDisp]
          /\ df' = Frame(Columns, Append(df.rows, r))
    /\ before' = IF before = None THEN df ELSE before
    /\ cycle_numbers' = Cycle_Number(df'.rows)
    /\ groups' = groupby(df'.rows, cycle_numbers')
    /\ outcome' = calculate_moduli_by_cycle(df', lapack)
    /\ UNCHANGED <<pc, lapack>>
    /\ UNCHANGED batchVars

InitEst ==
    /\ pc = "input"
    /\ lapack \in Lapacks
    /\ \E size \in Sizes :
          df \in {Frame(Columns, rows) : rows \in SeqsUpTo(EstRows(size), MaxRows)}
    /\ cycle_numbers = None
    /\ groups = None
    /\ outcome = None
    /\ before = None
    /\ BatchIdle

NextEst == Calculate \/ AppendUnloading

SpecEst == InitEst /\ [][NextEst]_vars

-----------------------------------------------------------------------------
(* Vocabulary of the properties, stated without the operators of the code *)

\* The label, with surrounding whitespace removed, ends with "Compress".
CompressLabeled(label) ==
    \E i \in 1..Len(label) :
        /\ label[i] = "Compress"
        /\ \A j \in (i + 1)..Len(label) : label[j] = Space

CompressAt(rows, i) == CompressLabeled(rows[i][ColCycle])

\* The first rows of the maximal runs of compress-labeled rows.
RunStarts(rows) ==
    {i \in 1..Len(rows) : CompressAt(rows, i) /\ (i = 1 \/ ~CompressAt(rows, i - 1))}

\* The maximal run of compress-labeled rows that starts at row s.
RunFrom(rows, s) ==
    {i \in s..Len(rows) : \A j \in s..i : CompressAt(rows, j)}

\* Rows of a cycle with a strictly positive discrete displacement gradient;
\* a single row has no difference at all.
PositiveGradientRows(group) ==
    IF Len(group) < 2 THEN {}
    ELSE LET d == Displacement(group)
             n == Len(group)
         IN  {i \in 1..n :
                 IF i = 1 THEN d[2] - d[1] > 0
                 ELSE IF i = n THEN d[n] - d[n - 1] > 0
                 ELSE d[i + 1] - d[i - 1] > 0}

GroupOf(k) == GroupRows(df.rows, groups[k])

Recorded(k) == outcome.kind = "return" /\ k \in DOMAIN outcome.results

Max(S) == CHOOSE x \in S : \A y \in S : x >= y

-----------------------------------------------------------------------------
(* C1 -- cycle segmentation *)

\* C1: the Cycle_Number sequence has the length of the input, starts from a
\* counter of 0, never decreases, and steps (by exactly 1) at row i exactly
\* when row i is compress-labeled and row i-1 does not exist or is not.
C1_CycleNumbering ==
    pc = "called" =>
        /\ Len(cycle_numbers) = Len(df.rows)
        /\ \A i \in 1..Len(df.rows) :
              LET prev == IF i = 1 THEN 0 ELSE cycle_numbers[i - 1]
              IN  /\ cycle_numbers[i] - prev \in {0, 1}
                  /\ (cycle_numbers[i] = prev + 1) <=> (i \in RunStarts(df.rows))

C1_Witness ==
    /\ pc = "called"
    /\ cycle_numbers = <<0, 1, 1, 2>>
    /\ df.rows[2][ColCycle] = LabCompressWs
    /\ df.rows[3][ColCycle] = LabCompressHold

-----------------------------------------------------------------------------
(* C10 -- groups are the maximal compress runs *)

\* C10: grouping the compress rows by Cycle_Number gives exactly the maximal
\* runs of compress-labeled rows, the k-th run being group k; every grouped
\* row carries its group's number, which is at least 1.
C10_GroupsAreRuns ==
    pc = "called" =>
        LET starts == RunStarts(df.rows)
        IN  /\ DOMAIN groups = 1..Cardinality(starts)
            /\ \A s \in starts :
                  LET k == Cardinality({t \in starts : t <= s})
                      run == RunFrom(df.rows, s)
                  IN  /\ Len(groups[k]) = Cardinality(run)
                      /\ \A j \in 1..Len(groups[k]) : groups[k][j] = s + j - 1
            /\ \A k \in DOMAIN groups : \A j \in 1..Len(groups[k]) :
                  /\ cycle_numbers[groups[k][j]] = k
                  /\ k >= 1
            /\ \A i \in 1..Len(df.rows) :
                  cycle_numbers[i] = 0 =>
                      \A k \in DOMAIN groups : \A j \in 1..Len(groups[k]) :
                          groups[k][j] # i

C10_Witness ==
    /\ pc = "called"
    /\ cycle_numbers = <<1, 1, 1, 2>>
    /\ DOMAIN groups = {1, 2}
    /\ groups[1] = <<1, 2>>
    /\ groups[2] = <<4>>
    /\ df.rows[2][ColCycle] = LabCompressWs

-----------------------------------------------------------------------------
(* C4, C5 -- the minimum-data policy and its locality *)

\* C4: for every cycle of the frame, a result is recorded for the cycle if
\* and only if at least 2 of its rows have a strictly positive gradient.
C4_MinimumData ==
    pc = "called" =>
        \A k \in DOMAIN groups :
            Recorded(k) <=> Cardinality(PositiveGradientRows(GroupOf(k))) >= 2

\* C5: a cycle with fewer than 2 loading rows, whatever the length of its
\* run, yields no result and raises nothing: the call fails only if the fit
\* of some other cycle does.
C5_InsufficientDataLocal ==
    pc = "called" =>
        \A k \in DOMAIN groups :
            Cardinality(PositiveGradientRows(GroupOf(k))) < 2 =>
                /\ CycleOutcome(df.columns, GroupOf(k), lapack).kind = "continue"
                /\ ~Recorded(k)
                /\ outcome.kind = "raise" => outcome.exc = "LinAlgError"

-----------------------------------------------------------------------------
(* C6 -- loading-phase isolation *)

HasBoth(d) ==
    /\ \E i \in 1..(Len(d) - 1) : d[i] < d[i + 1]
    /\ \E i \in 1..(Len(d) - 1) : d[i] > d[i + 1]

EndsFalling(d) == Len(d) >= 2 /\ d[Len(d)] < d[Len(d) - 1]

\* Row i is an end of a step on which the displacement rises.
OnRisingStep(d, i) ==
    \/ i > 1 /\ d[i - 1] < d[i]
    \/ i < Len(d) /\ d[i] < d[i + 1]

\* The last cycle of a frame that ends in a compress row.
LastGroup(frame) ==
    LET grp == groupby(frame.rows, Cycle_Number(frame.rows))
    IN  GroupRows(frame.rows, grp[Max(DOMAIN grp)])

\* The rows selected in the cycle lie on rising steps, and the rows appended
\* since the frame was drawn changed neither the selection nor the result.
Isolated(g0, g1) ==
    /\ \A i \in Loading(g1) : OnRisingStep(Displacement(g1), i)
    /\ Loading(g1) = Loading(g0)
    /\ CycleOutcome(Columns, g1, lapack) = CycleOutcome(Columns, g0, lapack)
    /\ outcome = calculate_moduli_by_cycle(before, lapack)

\* C6 as claimed: for every cycle with a rising and a falling step, only rows
\* of rising steps are selected, and unloading rows appended to the cycle
\* leave the selected rows and the moduli unchanged.
C6_Original ==
    before # None =>
        (HasBoth(Displacement(LastGroup(before)))
            => Isolated(LastGroup(before), LastGroup(df)))

\* C6 amended: the same, for every such cycle whose last step is falling.
C6_LoadingIsolation ==
    before # None =>
        (HasBoth(Displacement(LastGroup(before)))
         /\ EndsFalling(Displacement(LastGroup(before)))
            => Isolated(LastGroup(before), LastGroup(df)))

C6_Witness ==
    /\ before # None
    /\ Len(df.rows) = Len(before.rows) + 1
    /\ HasBoth(Displacement(LastGroup(before)))
    /\ EndsFalling(Displacement(LastGroup(before)))
    /\ Recorded(Max(DOMAIN groups))
    /\ outcome.results[Max(DOMAIN groups)].storage = <<1, 1>>
    /\ df.rows[Len(df.rows)][ColForce] = 1

-----------------------------------------------------------------------------
(* C2, C8 -- per-file failures stay local *)

Examined == 1..Len(examined)

WellFormed(content) == content.readable /\ content.frame.columns = Columns

RowsNamed(name) == {j \in 1..Len(output_rows) : output_rows[j].name = name}

\* C2: an unreadable file is logged and skipped: no exception leaves its
\* iteration, it gets no row, and the loop goes on behind it.
C2_ReadFailureLocal ==
    \A i \in Examined :
        ~examined[i].content.readable =>
            /\ examined[i].exc = NoExc
            /\ \E m \in 1..Len(log) : log[m] = ErrorReading(examined[i].file)
            /\ RowsNamed(basename(examined[i].file)) = {}
            /\ pc # "aborted" \/ i < Len(examined)

\* C8: a file that is read but lacks a required column is caught for that
\* file: no exception leaves its iteration and it gets no row.
C8_MalformedLocal ==
    \A i \in Examined :
        (examined[i].content.readable /\ ~WellFormed(examined[i].content)) =>
            /\ examined[i].exc = NoExc
            /\ RowsNamed(basename(examined[i].file)) = {}
            /\ pc # "aborted" \/ i < Len(examined)

-----------------------------------------------------------------------------
(* C3 -- file-level retention *)

Valid(moduli_dict) ==
    moduli_dict # None /\ Cardinality(DOMAIN moduli_dict) >= 3

\* The row holds the results of the three lowest cycle numbers, ascending.
ThreeLowest(moduli_dict, row) ==
    \E k1, k2, k3 \in DOMAIN moduli_dict :
        /\ k1 < k2 /\ k2 < k3
        /\ \A k \in DOMAIN moduli_dict \ {k1, k2, k3} : k > k3
        /\ row.cycle1 = moduli_dict[k1]
        /\ row.cycle2 = moduli_dict[k2]
        /\ row.cycle3 = moduli_dict[k3]

\* C3: a file has a summary row if and only if its result map holds at least
\* 3 results, and the row uses the three lowest cycle numbers in ascending
\* order as Cycle 1, 2 and 3.
C3_FileRetention ==
    \A i \in Examined :
        LET rows == RowsNamed(basename(examined[i].file))
        IN  /\ (rows # {}) <=> Valid(examined[i].moduli_dict)
            /\ \A j \in rows : ThreeLowest(examined[i].moduli_dict, output_rows[j])

C3_Witness ==
    /\ \E i \in Examined :
          /\ examined[i].content = Readable(FiveCyclesOneEmpty)
          /\ RowsNamed(basename(examined[i].file)) # {}
    /\ \E i \in Examined :
          /\ examined[i].content = Readable(ThreeCycles)
          /\ RowsNamed(basename(examined[i].file)) # {}
    /\ \E i \in Examined :
          /\ examined[i].content = Readable(TwoCycles)
          /\ examined[i].exc = NoExc

-----------------------------------------------------------------------------
(* C7 -- shape and order of the summary table *)

Kept == {i \in Examined : Valid(examined[i].moduli_dict)}

\* The j-th retained file, in the order of examination.
KeptAt(j) == CHOOSE i \in Kept : Cardinality({x \in Kept : x <= i}) = j

\* C7: the rows are exactly the files with at least 3 valid cycles, one row
\* each, in the lexicographic order of the paths; once the loop is over
\* every file of the scan has been examined.
C7_SummaryShape ==
    /\ Len(output_rows) = Cardinality(Kept)
    /\ \A j \in 1..Len(output_rows) :
          output_rows[j].name = basename(examined[KeptAt(j)].file)
    /\ \A i, j \in Examined :
          i < j => StrLess(examined[i].file, examined[j].file)
    /\ \A i \in Examined : \E m \in 1..Len(file_list) : file_list[m] = examined[i].file
    /\ pc = "done" =>
          \A m \in 1..Len(file_list) : \E i \in Examined : examined[i].file = file_list[m]

C7_Witness ==
    /\ pc = "done"
    /\ Len(file_list) = 3
    /\ StrLess(file_list[3], file_list[1])
    /\ \A i \in Examined : WellFormed(examined[i].content)
    /\ Len(output_rows) = 2
    /\ ~Valid(examined[2].moduli_dict)

-----------------------------------------------------------------------------
(* C9 -- end of run *)

Ended == pc \in {"done", "aborted"}

\* C9: the table is written at most once and only after every file has
\* been examined; a run that retained a file ends with the write, and a run
\* that retained none ends normally with "No files processed." and no write.
C9_EndOfRun ==
    /\ written <= 1
    /\ written = 1 => (pc = "done" /\ todo = <<>> /\ output_rows # <<>>)
    /\ Ended =>
          /\ written = 1 <=> output_rows # <<>>
          /\ output_rows = <<>> =>
                (pc = "done" /\ log # <<>> /\ log[Len(log)] = NoFilesProcessed)

=============================================================================
